---- MODULE Spec2Model ----
(***************************************************************************)
(* The test-run orchestration and report assembly pipeline of              *)
(* nilgiri-performance: runPerformanceTest and its earlier variant         *)
(* runK6Test (src/unnamed/part_000).  Runs share one Node.js process and   *)
(* one working directory: a run executes synchronously up to its await of  *)
(* the remote analysis request and again from the answer to its end, so    *)
(* another run can only start, or resume, while no run is executing.       *)
(***************************************************************************)
EXTENDS Integers, Sequences, FiniteSets, TLC

VARIABLES
    pc,            \* pc[r]: the statement run r executes next
    params,        \* params[r]: the argument object of the call
    result,        \* result[r]: what spawnSync returned
    jsonData,      \* jsonData[r]: the parsed summary
    reqState,      \* reqState[r]: state of getAIAnalysis's request
    aiAnalysis,    \* aiAnalysis[r]: the string getAIAnalysis returned
    promise,       \* promise[r]: the promise the async function returned
    console,       \* console[r]: messages the run logged, in order
    events,        \* events[r]: effects of the run on the outside, in order
    tempScript,    \* the file __dirname/temp_k6_script.js
    tempReport,    \* the file ./temp_report.json
    detailedFile,  \* the file at detailedReportjson
    reportFile,    \* the file at aireport.reportPath
    summary,       \* generateCustomHtmlReport: the metrics of its jsonData
    insightText,   \* generateCustomHtmlReport: its aiAnalysis argument
    html,          \* generateCustomHtmlReport: the document it wrote
    charts,        \* the datasets the written page computes when opened
    answers,       \* script synthesis: the answers or options given
    k6Script,      \* script synthesis: the script text built from them
    summaryText,   \* detailed copy: the text of temp_report.json
    parsedModel,   \* detailed copy: jsonData, what JSON.parse made of it
    detailedText,  \* detailed copy: the text written to detailedReportjson
    reparsedModel, \* detailed copy: what JSON.parse makes of that text
    program,       \* command line tool: index.js or main.ts
    cliPc,         \* command line tool: where the session is
    engine,        \* command line tool: how the k6 process ends
    reporter,      \* command line tool: how the report generation ends
    rlOpen,        \* command line tool: the readline interface is open
    cliConsole,    \* command line tool: messages logged, in order
    cliEvents      \* command line tool: effects on the outside, in order

\* The state of one call of generateCustomHtmlReport, and of one script
\* synthesis, each taken on its own.
renderer == <<summary, insightText, html, charts>>
synth == <<answers, k6Script>>

\* The state of one write of the detailed copy, and of one session of a
\* command line tool after its prompts.
copier == <<summaryText, parsedModel, detailedText, reparsedModel>>
cli == <<program, cliPc, engine, reporter, rlOpen, cliConsole, cliEvents>>

vars == <<pc, params, result, jsonData, reqState, aiAnalysis, promise,
          console, events, tempScript, tempReport, detailedFile, reportFile,
          renderer, synth, copier, cli>>

\* The runs of one process (two calls that may overlap at the await).
Runs == {1, 2}

\* ------------------------------------------------------------- insight text

\* An answer is a sequence of tokens: the text that opens a table tag, a
\* closing angle bracket, a table end tag, any other text, white space.
Tokens == {"<table", ">", "</table>", "x", " "}

\* The contents the endpoint is taken to answer with: nothing, prose, a table
\* alone, a table inside prose and white space, a table tag with attributes,
\* a table that is never closed, an end tag met before the tag is closed.
Texts ==
    {<<>>,
     <<"x">>,
     <<"<table", ">", "x", "</table>">>,
     <<" ", "x", "<table", ">", "</table>", "x", " ">>,
     <<"<table", " ", "x", ">", "x", "</table>", "</table>">>,
     <<"x", "<table", ">", "x">>,
     <<"<table", "</table>", "x">>}

\* String.prototype.trim
RECURSIVE Trim(_)
Trim(s) ==
    IF s = <<>> THEN s
    ELSE IF Head(s) = " " THEN Trim(Tail(s))
    ELSE IF s[Len(s)] = " " THEN Trim(SubSeq(s, 1, Len(s) - 1))
    ELSE s

\* The token holds the character '>'.
HasGt(t) == t \in {">", "</table>"}

\* /<table[^>]*>[\s\S]*?<\/table>/ tried at position i: "<table" at i, the
\* first '>' after it closes the tag (it may be the one ending a "</table>"
\* that [^>]* ran into), and a "</table>" follows that.
TagEnd(s, i) == CHOOSE j \in (i + 1)..Len(s) :
                    HasGt(s[j]) /\ \A m \in (i + 1)..(j - 1) : ~HasGt(s[m])

MatchesAt(s, i) ==
    /\ s[i] = "<table"
    /\ \E j \in (i + 1)..Len(s) : HasGt(s[j])
    /\ \E k \in (TagEnd(s, i) + 1)..Len(s) : s[k] = "</table>"

\* aiAnalysis.match(/<table[^>]*>[\s\S]*?<\/table>/): null (here NoMatch), or
\* the leftmost match, ended at the first "</table>" that completes it.
NoMatch == <<>>

TableMatch(s) ==
    IF \E i \in 1..Len(s) : MatchesAt(s, i)
    THEN LET i == CHOOSE a \in 1..Len(s) :
                      MatchesAt(s, a) /\ \A b \in 1..(a - 1) : ~MatchesAt(s, b)
             k == CHOOSE c \in (TagEnd(s, i) + 1)..Len(s) :
                      s[c] = "</table>" /\ \A d \in (TagEnd(s, i) + 1)..(c - 1) : s[d] # "</table>"
         IN  SubSeq(s, i, k)
    ELSE NoMatch

\* What getAIAnalysis (runPerformanceTest variant) returns when the request fails.
Placeholder == <<"Failed to fetch AI analysis.">>


\* ------------------------------------------------------------------ inputs

\* The aireport argument: absent, complete, or with one field absent or empty.
Complete == [present |-> TRUE, reportPath |-> "report.html", AiUrl |-> "url", apikey |-> "key"]

AireportInputs ==
    {[present |-> FALSE, reportPath |-> "undefined", AiUrl |-> "undefined", apikey |-> "undefined"]}
    \cup {Complete}
    \cup {[Complete EXCEPT !.reportPath = v] : v \in {"undefined", ""}}
    \cup {[Complete EXCEPT !.AiUrl = v] : v \in {"undefined", ""}}
    \cup {[Complete EXCEPT !.apikey = v] : v \in {"undefined", ""}}

\* runK6Test reads no other field of aireport than reportPath and apikey.
ParamsInputs ==
    [fn : {"runPerformanceTest"},
     aireport : AireportInputs,
     detailedReportjson : {"undefined", "detailed.json"}]
    \cup [fn : {"runK6Test"},
          aireport : {a \in AireportInputs : a.AiUrl = "url" \/ ~a.present},
          detailedReportjson : {"undefined", "detailed.json"}]

NotCalled == [fn |-> "none", aireport |-> Complete, detailedReportjson |-> "undefined"]

\* What the engine call can come to: the binary does not start, or the engine
\* runs, exits with a status and leaves a summary or not.
EngineOutcomes ==
    {[error |-> TRUE, status |-> "null", summary |-> "none"]}
    \cup [error : {FALSE}, status : {"0", "99"},
          summary : {"none", "invalid", "metrics", "noMetrics"}]

\* What the endpoint can answer: no answer (network error), a non-2xx status,
\* a 2xx body without choices[0].message.content, or a body with content.
AiResponses ==
    [ok : {FALSE}, why : {"networkError", "non2xx", "noContent"}, content : {<<>>}]
    \cup [ok : {TRUE}, why : {"content"}, content : Texts]

\* -------------------------------------------------------------------- state

NoFile == [by |-> 0, content |-> "absent"]
NoReport == [by |-> 0, panel |-> <<>>]
NoData == [by |-> 0, content |-> "undefined"]
NoResult == [error |-> FALSE, status |-> "none"]

Exists(f) == f.by # 0

\* No report asked for, no page opened, no script synthesised.
NoHtml == [state |-> "none", fn |-> "none", tiles |-> <<>>, rows |-> <<>>,
           panel |-> <<>>, embedded |-> <<>>]
NoCharts == [state |-> "none", duration |-> <<>>, iteration |-> <<>>]
NoAnswers == [by |-> "none"]
NoScript == [by |-> "none", options |-> <<>>, body |-> <<>>]

RendererIdle ==
    /\ summary = <<>>
    /\ insightText = <<>>
    /\ html = NoHtml
    /\ charts = NoCharts

SynthIdle ==
    /\ answers = NoAnswers
    /\ k6Script = NoScript

CopierIdle ==
    /\ summaryText = <<>>
    /\ parsedModel = <<>>
    /\ detailedText = <<>>
    /\ reparsedModel = <<>>

NoEngine == [error |-> "none", stderr |-> FALSE, summary |-> "none"]
NoReporter == [error |-> FALSE, stderr |-> FALSE, request |-> "none"]

CliIdle ==
    /\ program = "none"
    /\ cliPc = "idle"
    /\ engine = NoEngine
    /\ reporter = NoReporter
    /\ rlOpen = FALSE
    /\ cliConsole = <<>>
    /\ cliEvents = <<>>

PipelineIdle ==
    /\ pc = [r \in Runs |-> "idle"]
    /\ params = [r \in Runs |-> NotCalled]
    /\ result = [r \in Runs |-> NoResult]
    /\ jsonData = [r \in Runs |-> NoData]
    /\ reqState = [r \in Runs |-> "none"]
    /\ aiAnalysis = [r \in Runs |-> <<>>]
    /\ promise = [r \in Runs |-> "none"]
    /\ console = [r \in Runs |-> <<>>]
    /\ events = [r \in Runs |-> <<>>]
    /\ tempScript = NoFile
    /\ tempReport = NoFile
    /\ detailedFile = NoFile
    /\ reportFile = NoReport

Init == PipelineIdle /\ RendererIdle /\ SynthIdle /\ CopierIdle /\ CliIdle

\* The statements between the call and the await, and between the answer and
\* the end of the function, run without yielding.
SyncPc == {"writeScript", "spawn", "unlinkScript", "checkResult", "readSummary",
           "saveDetailed", "callAi", "render", "unlinkSummary"}

\* Mutant: a pending request blocks the process as a statement under way does.
BusyOrAwaiting == \E r \in Runs : pc[r] \in SyncPc \cup {"awaitAi"}

Busy == \E r \in Runs : pc[r] \in SyncPc

Falsy(v) == v \in {"undefined", ""}

locals == <<result, jsonData, reqState, aiAnalysis>>
files == <<tempScript, tempReport, detailedFile, reportFile>>

Log(r, m) == console' = [console EXCEPT ![r] = Append(@, m)]
Emit(r, e) == events' = [events EXCEPT ![r] = Append(@, e)]
Goto(r, l) == pc' = [pc EXCEPT ![r] = l]

\* The function ends and its locals with it; its promise settles: "resolved"
\* on return, the name of the error when an exception leaves the function.
Settle(r, how) ==
    /\ pc' = [pc EXCEPT ![r] = "done"]
    /\ promise' = [promise EXCEPT ![r] = how]
    /\ result' = [result EXCEPT ![r] = NoResult]
    /\ jsonData' = [jsonData EXCEPT ![r] = NoData]
    /\ reqState' = [reqState EXCEPT ![r] = "none"]
    /\ aiAnalysis' = [aiAnalysis EXCEPT ![r] = <<>>]

Return(r) == Settle(r, "resolved")
Throw(r, e) == Settle(r, e)

Rejected(r) == promise[r] \notin {"none", "pending", "resolved"}

\* ------------------------------------------------------------------ actions

\* Mutant: the validation forgets the credential.
MissingParamsButApikey(p) ==
    \/ ~p.aireport.present
    \/ Falsy(p.aireport.reportPath)
    \/ Falsy(p.aireport.AiUrl)

\* runPerformanceTest: !aireport || !reportPath || !AiUrl || !apikey
MissingParams(p) ==
    \/ ~p.aireport.present
    \/ Falsy(p.aireport.reportPath)
    \/ Falsy(p.aireport.AiUrl)
    \/ Falsy(p.aireport.apikey)

\* runK6Test: !aireport || !aireport.reportPath
MissingReportPath(p) ==
    \/ ~p.aireport.present
    \/ Falsy(p.aireport.reportPath)

Invalid(p) ==
    IF p.fn = "runPerformanceTest" THEN MissingParams(p) ELSE MissingReportPath(p)

\* The call, up to the end of the validation.
Call(r) ==
    /\ pc[r] = "idle"
    /\ ~Busy
    /\ \E p \in ParamsInputs :
        /\ params' = [params EXCEPT ![r] = p]
        /\ IF Invalid(p)
           THEN /\ Log(r, IF p.fn = "runPerformanceTest"
                          THEN "Missing required AI report parameters"
                          ELSE "Report path is not defined in aireport")
                /\ Return(r)
           ELSE /\ Goto(r, "writeScript")
                /\ promise' = [promise EXCEPT ![r] = "pending"]
                /\ UNCHANGED <<console, locals>>
    /\ UNCHANGED <<events, files>>
    /\ UNCHANGED <<renderer, synth, copier, cli>>

\* fs.writeFileSync(tempScriptPath, k6Script)
WriteScript(r) ==
    /\ pc[r] = "writeScript"
    /\ \/ /\ tempScript' = [by |-> r, content |-> "script"]
          /\ Emit(r, "scriptWritten")
          /\ Goto(r, "spawn")
          /\ UNCHANGED <<promise, locals>>
       \/ /\ Throw(r, "EACCES open script")
          /\ UNCHANGED <<tempScript, events>>
    /\ UNCHANGED <<params, console, tempReport, detailedFile, reportFile>>
    /\ UNCHANGED <<renderer, synth, copier, cli>>

\* spawnSync('k6', ['run', tempScriptPath, '--summary-export', jsonReportPath])
SpawnEngine(r) ==
    /\ pc[r] = "spawn"
    /\ \E o \in EngineOutcomes :
        /\ result' = [result EXCEPT ![r] = [error |-> o.error, status |-> o.status]]
        /\ tempReport' = IF o.summary = "none" THEN tempReport
                         ELSE [by |-> r, content |-> o.summary]
        /\ events' = [events EXCEPT ![r] =
                @ \o (IF o.summary = "none" THEN <<>> ELSE <<"summaryExported">>)
                  \o <<IF o.error THEN "spawnFailed"
                       ELSE IF o.status = "0" THEN "engineExitedZero"
                       ELSE "engineExitedNonZero">>]
    /\ Goto(r, "unlinkScript")
    /\ UNCHANGED <<params, jsonData, reqState, aiAnalysis, promise, console,
                   tempScript, detailedFile, reportFile>>
    /\ UNCHANGED <<renderer, synth, copier, cli>>

\* Mutant: the script is removed only after the early return on result.error.
UnlinkScriptUnlessSpawnFailed(r) ==
    /\ pc[r] = "unlinkScript"
    /\ IF result[r].error
       THEN /\ Goto(r, "checkResult")
            /\ UNCHANGED <<tempScript, events, promise, locals>>
       ELSE IF Exists(tempScript)
       THEN /\ tempScript' = NoFile
            /\ Emit(r, "scriptRemoved")
            /\ Goto(r, "checkResult")
            /\ UNCHANGED <<promise, locals>>
       ELSE /\ Throw(r, "ENOENT unlink script")
            /\ UNCHANGED <<tempScript, events>>
    /\ UNCHANGED <<params, console, tempReport, detailedFile, reportFile>>
    /\ UNCHANGED <<renderer, synth, copier, cli>>

\* fs.unlinkSync(tempScriptPath)
UnlinkScript(r) ==
    /\ pc[r] = "unlinkScript"
    /\ IF Exists(tempScript)
       THEN /\ tempScript' = NoFile
            /\ Emit(r, "scriptRemoved")
            /\ Goto(r, "checkResult")
            /\ UNCHANGED <<promise, locals>>
       ELSE /\ Throw(r, "ENOENT unlink script")
            /\ UNCHANGED <<tempScript, events>>
    /\ UNCHANGED <<params, console, tempReport, detailedFile, reportFile>>
    /\ UNCHANGED <<renderer, synth, copier, cli>>

\* Mutant: result.error is not looked at.
NeverStopsAfterEngine(res) == FALSE

\* Mutant: a non-zero exit status is taken for a failure too.
StopsOnNonZeroExit(res) == res.error \/ res.status # "0"

\* if (result.error)
StopsAfterEngine(res) == res.error

\* if (result.error) { console.error('Error running k6:', ...); return; }
CheckResult(r) ==
    /\ pc[r] = "checkResult"
    /\ IF StopsAfterEngine(result[r])
       THEN /\ Log(r, "Error running k6")
            /\ Return(r)
       ELSE /\ Goto(r, "readSummary")
            /\ UNCHANGED <<console, promise, locals>>
    /\ UNCHANGED <<params, events, files>>
    /\ UNCHANGED <<renderer, synth, copier, cli>>

\* Mutant: an unreadable summary is replaced by an empty metrics model.
ParseSummaryOrDefaults(f) ==
    IF ~Exists(f) \/ f.content = "invalid"
    THEN [thrown |-> "", value |-> [by |-> 0, content |-> "metrics"]]
    ELSE [thrown |-> "", value |-> f]

\* JSON.parse(fs.readFileSync(jsonReportPath, 'utf8')): the parsed value, or
\* the name of what is thrown.
ParseSummary(f) ==
    IF ~Exists(f) THEN [thrown |-> "ENOENT open summary", value |-> NoData]
    ELSE IF f.content = "invalid" THEN [thrown |-> "SyntaxError", value |-> NoData]
    ELSE [thrown |-> "", value |-> f]

ReadSummary(r) ==
    /\ pc[r] = "readSummary"
    /\ LET parsed == ParseSummary(tempReport)
       IN  IF parsed.thrown # ""
           THEN /\ Throw(r, parsed.thrown)
                /\ UNCHANGED events
           ELSE /\ jsonData' = [jsonData EXCEPT ![r] = parsed.value]
                /\ Emit(r, "summaryRead")
                /\ Goto(r, "saveDetailed")
                /\ UNCHANGED <<promise, result, reqState, aiAnalysis>>
    /\ UNCHANGED <<params, console, files>>
    /\ UNCHANGED <<renderer, synth, copier, cli>>

\* if (detailedReportjson) { fs.writeFileSync(...); console.log(...); }
SaveDetailed(r) ==
    /\ pc[r] = "saveDetailed"
    /\ IF Falsy(params[r].detailedReportjson)
       THEN /\ Goto(r, "callAi")
            /\ UNCHANGED <<detailedFile, console, events, promise, locals>>
       ELSE \/ /\ detailedFile' = [by |-> r, content |-> jsonData[r].content]
               /\ Log(r, "Detailed JSON report saved")
               /\ Emit(r, "detailedWritten")
               /\ Goto(r, "callAi")
               /\ UNCHANGED <<promise, locals>>
            \/ /\ Throw(r, "EACCES open detailed")
               /\ UNCHANGED <<detailedFile, console, events>>
    /\ UNCHANGED <<params, tempScript, tempReport, reportFile>>
    /\ UNCHANGED <<renderer, synth, copier, cli>>

\* getAIAnalysis up to the request.  The runPerformanceTest variant first reads
\* Object.keys(jsonData.metrics), outside its try: a summary without metrics
\* throws there and no request is built.  The call is awaited either way.
BuildsRequest(fn, data) == fn = "runK6Test" \/ data.content = "metrics"

\* Mutant: the request is posted a second time.
CallAiTwice(r) ==
    /\ pc[r] = "callAi"
    /\ IF BuildsRequest(params[r].fn, jsonData[r])
       THEN /\ reqState' = [reqState EXCEPT ![r] = "inflight"]
            /\ events' = [events EXCEPT ![r] = @ \o <<"requestSent", "requestSent">>]
       ELSE /\ reqState' = [reqState EXCEPT ![r] = "threw"]
            /\ UNCHANGED events
    /\ Goto(r, "awaitAi")
    /\ UNCHANGED <<params, result, jsonData, aiAnalysis, promise, console, files>>
    /\ UNCHANGED <<renderer, synth, copier, cli>>

\* Mutant: the call of getAIAnalysis is not awaited.
CallAiNoAwait(r) ==
    /\ pc[r] = "callAi"
    /\ reqState' = [reqState EXCEPT ![r] = "inflight"]
    /\ Emit(r, "requestSent")
    /\ Goto(r, "render")
    /\ UNCHANGED <<params, result, jsonData, aiAnalysis, promise, console, files>>
    /\ UNCHANGED <<renderer, synth, copier, cli>>

CallAi(r) ==
    /\ pc[r] = "callAi"
    /\ IF BuildsRequest(params[r].fn, jsonData[r])
       THEN /\ reqState' = [reqState EXCEPT ![r] = "inflight"]
            /\ Emit(r, "requestSent")
       ELSE /\ reqState' = [reqState EXCEPT ![r] = "threw"]
            /\ UNCHANGED events
    /\ Goto(r, "awaitAi")
    /\ UNCHANGED <<params, result, jsonData, aiAnalysis, promise, console, files>>
    /\ UNCHANGED <<renderer, synth, copier, cli>>

\* The catch of getAIAnalysis: the runPerformanceTest variant returns the
\* placeholder, the runK6Test variant rethrows.
Rethrows(fn) == fn = "runK6Test"

\* The request settles and the run resumes: the answer's trimmed content is
\* returned; a failed request is logged and answered per variant; what
\* getAIAnalysis throws reaches the catch of the run.
AiSettle(r) ==
    /\ pc[r] = "awaitAi"
    /\ ~Busy
    /\ IF reqState[r] = "threw"
       THEN /\ Log(r, "Error during AI analysis: TypeError reading metrics")
            /\ Goto(r, "unlinkSummary")
            /\ UNCHANGED <<reqState, aiAnalysis, events>>
       ELSE \E a \in AiResponses :
            IF a.ok
            THEN /\ reqState' = [reqState EXCEPT ![r] = "answered"]
                 /\ aiAnalysis' = [aiAnalysis EXCEPT ![r] = Trim(a.content)]
                 /\ Emit(r, "requestAnswered")
                 /\ Goto(r, "render")
                 /\ UNCHANGED console
            ELSE /\ reqState' = [reqState EXCEPT ![r] = "failed"]
                 /\ Emit(r, "requestFailed")
                 /\ IF Rethrows(params[r].fn)
                    THEN /\ console' = [console EXCEPT ![r] =
                                @ \o <<"Error sending request to GPT",
                                     "Error during AI analysis: request failed">>]
                         /\ Goto(r, "unlinkSummary")
                         /\ UNCHANGED aiAnalysis
                    ELSE /\ Log(r, "Error sending request to AI API")
                         /\ aiAnalysis' = [aiAnalysis EXCEPT ![r] = Placeholder]
                         /\ Goto(r, "render")
    /\ UNCHANGED <<params, result, jsonData, promise, files>>
    /\ UNCHANGED <<renderer, synth, copier, cli>>

\* The AI Analysis panel generateCustomHtmlReport builds from the insight.
\* runPerformanceTest variant: aiAnalysis.match(...)[0].trim(), a TypeError
\* when match returns null.  runK6Test variant: the insight as it is.
AnalysisPanel(fn, insight) ==
    IF fn = "runK6Test" THEN [thrown |-> "", panel |-> insight]
    ELSE IF TableMatch(insight) = NoMatch
         THEN [thrown |-> "TypeError", panel |-> <<>>]
         ELSE [thrown |-> "", panel |-> Trim(TableMatch(insight))]

\* generateCustomHtmlReport inside the try of the run: the panel is built and
\* the document written to reportPath (which the file system may refuse);
\* whatever is thrown is caught and logged with the error.
Render(r) ==
    /\ pc[r] = "render"
    /\ LET built == AnalysisPanel(params[r].fn, aiAnalysis[r])
       IN  IF built.thrown # ""
           THEN /\ Log(r, "Error during AI analysis: TypeError reading match")
                /\ UNCHANGED <<reportFile, events>>
           ELSE \/ /\ reportFile' = [by |-> r, panel |-> built.panel]
                   /\ Log(r, "Custom HTML report with AI analysis generated")
                   /\ Emit(r, "reportWritten")
                \/ /\ Log(r, "Error during AI analysis: EACCES report")
                   /\ UNCHANGED <<reportFile, events>>
    /\ Goto(r, "unlinkSummary")
    /\ UNCHANGED <<params, locals, promise, tempScript, tempReport, detailedFile>>
    /\ UNCHANGED <<renderer, synth, copier, cli>>

\* Mutant: the cleanup removes the persisted outputs with the summary.
UnlinkSummaryAndOutputs(r) ==
    /\ pc[r] = "unlinkSummary"
    /\ IF Exists(tempReport)
       THEN /\ tempReport' = NoFile
            /\ detailedFile' = NoFile
            /\ reportFile' = NoReport
            /\ Emit(r, "summaryRemoved")
            /\ Return(r)
       ELSE /\ Throw(r, "ENOENT unlink summary")
            /\ UNCHANGED <<tempReport, detailedFile, reportFile, events>>
    /\ UNCHANGED <<params, console, tempScript>>
    /\ UNCHANGED <<renderer, synth, copier, cli>>

\* fs.unlinkSync(jsonReportPath), the last statement of the run.
UnlinkSummary(r) ==
    /\ pc[r] = "unlinkSummary"
    /\ IF Exists(tempReport)
       THEN /\ tempReport' = NoFile
            /\ Emit(r, "summaryRemoved")
            /\ Return(r)
       ELSE /\ Throw(r, "ENOENT unlink summary")
            /\ UNCHANGED <<tempReport, events>>
    /\ UNCHANGED <<params, console, tempScript, detailedFile, reportFile>>
    /\ UNCHANGED <<renderer, synth, copier, cli>>

Next ==
    \E r \in Runs :
        \/ Call(r)
        \/ WriteScript(r)
        \/ SpawnEngine(r)
        \/ UnlinkScript(r)
        \/ CheckResult(r)
        \/ ReadSummary(r)
        \/ SaveDetailed(r)
        \/ CallAi(r)
        \/ AiSettle(r)
        \/ Render(r)
        \/ UnlinkSummary(r)

Spec == Init /\ [][Next]_vars


\* ------------------------------------------------------ reading the history

Has(r, e) == \E i \in DOMAIN events[r] : events[r][i] = e
At(r, e) == CHOOSE i \in DOMAIN events[r] : events[r][i] = e
Logged(r, m) == \E i \in DOMAIN console[r] : console[r][i] = m
Done(r) == pc[r] = "done"
Perf(r) == params[r].fn = "runPerformanceTest"
Called(r) == pc[r] # "idle"

\* The argument object lacks aireport, or one of its three required fields is
\* absent or empty.
Incomplete(p) ==
    \/ ~p.aireport.present
    \/ p.aireport.reportPath \in {"undefined", ""}
    \/ p.aireport.AiUrl \in {"undefined", ""}
    \/ p.aireport.apikey \in {"undefined", ""}

\* ------------------------------------------------------------------- claims

\* C1: in runPerformanceTest, a run that loaded its summary and whose analysis
\* request failed still writes the report to aireport.reportPath (the path
\* being writable), and the report's panel shows the placeholder text.
C1_ReportDespiteAnalysisFailure ==
    \A r \in Runs :
        ( /\ Perf(r) /\ Done(r)
          /\ Has(r, "summaryRead") /\ Has(r, "requestFailed")
          /\ ~Logged(r, "Error during AI analysis: EACCES report") )
        => /\ Has(r, "reportWritten")
           /\ Logged(r, "Custom HTML report with AI analysis generated")

\* C2: when a run of runPerformanceTest that got past validation has ended,
\* however it ended, the summary its engine exported is no longer on disk.
C2_NoSummaryLeftBehind ==
    \A r \in Runs :
        (Perf(r) /\ Done(r) /\ ~Incomplete(params[r])) => tempReport.by # r

\* C3: in both variants the script is on disk, written by the run, when the
\* engine is invoked, and every run that invoked the engine removed the script
\* right after it, whether the engine exited with zero, with non-zero or did
\* not start; no script of a run is on disk once the run is past the removal.
C3_ScriptScopedToEngineCall ==
    \A r \in Runs :
        /\ pc[r] = "spawn" => tempScript.by = r /\ Has(r, "scriptWritten")
        /\ \A e \in {"engineExitedZero", "engineExitedNonZero", "spawnFailed"} :
               Has(r, e) => /\ Has(r, "scriptWritten") /\ At(r, "scriptWritten") < At(r, e)
                            /\ pc[r] # "unlinkScript" =>
                                   Has(r, "scriptRemoved") /\ At(r, e) < At(r, "scriptRemoved")
        /\ pc[r] \notin {"spawn", "unlinkScript"} => tempScript.by # r

C3_Witness ==
    /\ \E r \in Runs : Perf(r) /\ Done(r) /\ Has(r, "spawnFailed") /\ Has(r, "scriptRemoved")
    /\ \E r \in Runs : ~Perf(r) /\ Done(r) /\ Has(r, "engineExitedNonZero")
                       /\ Has(r, "scriptRemoved") /\ ~Exists(tempScript)

\* C4: in the runPerformanceTest variant of generateCustomHtmlReport, an
\* insight with no <table>...</table> fragment does not make the rendering
\* throw: the report is written (the path being writable) and its AI Analysis
\* panel shows the raw insight.
C4_RawInsightWhenNoTable ==
    \A r \in Runs :
        ( /\ Perf(r) /\ pc[r] = "unlinkSummary"
          /\ reqState[r] \in {"answered", "failed"}
          /\ TableMatch(aiAnalysis[r]) = NoMatch
          /\ ~Logged(r, "Error during AI analysis: EACCES report") )
        => /\ ~Logged(r, "Error during AI analysis: TypeError reading match")
           /\ reportFile = [by |-> r, panel |-> aiAnalysis[r]]


\* C5: in runPerformanceTest, when the summary file is missing or is not valid
\* JSON at the read that follows the engine call, the step rejects the run's
\* promise with that error and ends the run: nothing is logged in place of the
\* error, no detailed copy or report is written, no request is sent, and an
\* ended run does nothing more.
C5_UnreadableSummaryIsFatal ==
    [][\A r \in Runs :
        /\ ( /\ Perf(r) /\ pc[r] = "readSummary"
             /\ (~Exists(tempReport) \/ tempReport.content = "invalid") )
           => /\ pc'[r] = "done"
              /\ promise'[r] = (IF Exists(tempReport) THEN "SyntaxError"
                                ELSE "ENOENT open summary")
              /\ events'[r] = events[r]
              /\ console'[r] = console[r]
              /\ \A i \in DOMAIN events[r] :
                     events[r][i] \notin {"summaryRead", "detailedWritten",
                                          "requestSent", "reportWritten"}
              /\ detailedFile' = detailedFile
              /\ reportFile' = reportFile
        /\ pc[r] = "done"
           => /\ pc'[r] = "done" /\ promise'[r] = promise[r]
              /\ events'[r] = events[r] /\ console'[r] = console[r]
      ]_vars

C5_Witness ==
    /\ \E r \in Runs : Perf(r) /\ Done(r) /\ promise[r] = "SyntaxError"
    /\ \E r \in Runs : Perf(r) /\ Done(r) /\ promise[r] = "ENOENT open summary"

\* C6: in runPerformanceTest, a run whose engine failed to spawn goes from the
\* engine call to the removal of the script and the check of result.error and
\* ends there: it logs the failure, its promise resolves, and it never reads
\* the summary, sends a request or writes a detailed copy or a report.
C6_SpawnFailureStopsTheRun ==
    \A r \in Runs :
        (Perf(r) /\ Has(r, "spawnFailed")) =>
            /\ pc[r] \in {"unlinkScript", "checkResult", "done"}
            /\ \A e \in {"summaryRead", "detailedWritten", "requestSent", "reportWritten"} :
                   ~Has(r, e)
            /\ detailedFile.by # r /\ reportFile.by # r
            /\ Done(r) => /\ console[r] = <<"Error running k6">>
                          /\ promise[r] = "resolved"

C6_Witness ==
    \E r \in Runs : Perf(r) /\ Done(r) /\ Has(r, "spawnFailed")

\* C7: in runPerformanceTest, a run whose engine was spawned and exited is
\* treated alike for a zero and a non-zero status: it is not stopped at the
\* check of result.error, it goes on to read the summary, it sends the request
\* for a summary with metrics and writes the report for an answer with a
\* table; only a run whose engine failed to spawn logs the engine error.
C7_NonZeroExitProceeds ==
    \A r \in Runs :
        Perf(r) =>
            /\ Logged(r, "Error running k6") => Has(r, "spawnFailed")
            /\ \A e \in {"engineExitedZero", "engineExitedNonZero"} :
                (Has(r, e) /\ Done(r)) =>
                    /\ promise[r] \in {"resolved", "ENOENT unlink summary"}
                       => Has(r, "summaryRead")
                    /\ Has(r, "summaryRead")
                       => \/ Has(r, "requestSent")
                          \/ Logged(r, "Error during AI analysis: TypeError reading metrics")
                          \/ promise[r] = "EACCES open detailed"

C7_Witness ==
    \E r \in Runs :
        /\ Perf(r) /\ Done(r) /\ Has(r, "engineExitedNonZero")
        /\ events[r] = <<"scriptWritten", "summaryExported", "engineExitedNonZero",
                         "scriptRemoved", "summaryRead", "requestSent",
                         "requestAnswered", "reportWritten", "summaryRemoved">>

C9_TempFilesOwnedByTheRun ==
    \A r \in Runs :
        /\ (pc[r] = "awaitAi" /\ Has(r, "summaryExported")) => tempReport.by = r
        /\ Has(r, "summaryExported") => jsonData[r].by \in {0, r}
        /\ promise[r] # "ENOENT unlink summary"

\* C10: the steps of a run happen in the order script written, engine run and
\* exited, script removed, summary read, detailed copy, request sent, request
\* answered or failed, report written, summary removed, each at most once and
\* none without the ones before it; the rendering starts only once the request
\* has been answered or has failed.
Rank(e) ==
    CASE e = "scriptWritten" -> 1
      [] e = "summaryExported" -> 2
      [] e \in {"engineExitedZero", "engineExitedNonZero", "spawnFailed"} -> 3
      [] e = "scriptRemoved" -> 4
      [] e = "summaryRead" -> 5
      [] e = "detailedWritten" -> 6
      [] e = "requestSent" -> 7
      [] e \in {"requestAnswered", "requestFailed"} -> 8
      [] e = "reportWritten" -> 9
      [] e = "summaryRemoved" -> 10

RequestCompleted(r) == Has(r, "requestAnswered") \/ Has(r, "requestFailed")

C10_StepsInPipelineOrder ==
    \A r \in Runs :
        Perf(r) =>
            /\ \A i, j \in DOMAIN events[r] :
                   i < j => Rank(events[r][i]) < Rank(events[r][j])
            /\ Has(r, "reportWritten") => RequestCompleted(r)
            /\ RequestCompleted(r) => Has(r, "requestSent")
            /\ Has(r, "requestSent") => Has(r, "summaryRead")
            /\ Has(r, "summaryRead") =>
                   Has(r, "engineExitedZero") \/ Has(r, "engineExitedNonZero")
            /\ (\E e \in {"engineExitedZero", "engineExitedNonZero", "spawnFailed"} : Has(r, e))
                   => Has(r, "scriptWritten")
            /\ pc[r] = "render" => RequestCompleted(r)

C10_Witness ==
    \E r \in Runs : Perf(r) /\ Done(r) /\ Has(r, "reportWritten")
                    /\ Has(r, "detailedWritten") /\ Has(r, "summaryRemoved")


\* How many times event e is in the history of run r.
Count(r, e) == Cardinality({i \in DOMAIN events[r] : events[r][i] = e})

\* C11 as claimed: a run sends at most one analysis request, and exactly one
\* whenever its summary was loaded.
C11_OneRequestPerLoadedSummary ==
    \A r \in Runs :
        Perf(r) =>
            /\ Count(r, "requestSent") <= 1
            /\ (Done(r) /\ Has(r, "summaryRead")) => Count(r, "requestSent") = 1

\* C11 as amended: a run sends at most one analysis request and never a second
\* one after a failure; it sends exactly one once it is past the analysis call
\* with a summary that has a metrics mapping (the summary was parsed and the
\* detailed copy, when asked for, was written).
C11_OneRequestPerAnalysedSummary ==
    \A r \in Runs :
        Perf(r) =>
            /\ Count(r, "requestSent") <= 1
            /\ Count(r, "requestAnswered") + Count(r, "requestFailed") <= Count(r, "requestSent")
            /\ ( /\ pc[r] \in {"awaitAi", "render", "unlinkSummary"}
                 /\ jsonData[r].content = "metrics" )
               => Count(r, "requestSent") = 1
            /\ (Has(r, "summaryRead") /\ Count(r, "requestSent") = 0)
               => \/ pc[r] \in {"saveDetailed", "callAi"}
                  \/ promise[r] = "EACCES open detailed"
                  \/ jsonData[r].content = "noMetrics"
                  \/ Logged(r, "Error during AI analysis: TypeError reading metrics")

C11_Witness ==
    \E r \in Runs : /\ Perf(r) /\ Done(r) /\ Has(r, "requestFailed")
                    /\ Count(r, "requestSent") = 1 /\ Has(r, "detailedWritten")

\* C12: the detailed copy, when asked for, is written right after the summary
\* is parsed and before the request is sent; a detailed copy or a report a run
\* has written is still on disk at every later point, the end of every run
\* included, whatever the later steps come to.
C12_PersistedOutputsSurvive ==
    \A r \in Runs :
        Perf(r) =>
            /\ Has(r, "detailedWritten") =>
                   /\ Has(r, "summaryRead")
                   /\ At(r, "detailedWritten") = At(r, "summaryRead") + 1
                   /\ Has(r, "requestSent") => At(r, "detailedWritten") < At(r, "requestSent")
                   /\ Exists(detailedFile)
            /\ ( /\ ~Falsy(params[r].detailedReportjson)
                 /\ \/ Has(r, "requestSent")
                    \/ pc[r] \in {"callAi", "awaitAi", "render", "unlinkSummary"} )
               => Has(r, "detailedWritten")
            /\ Has(r, "reportWritten") => Exists(reportFile)

C12_Witness ==
    /\ \E r \in Runs : /\ Perf(r) /\ Done(r) /\ Has(r, "detailedWritten")
                       /\ Logged(r, "Error during AI analysis: TypeError reading match")
                       /\ promise[r] = "resolved" /\ Exists(detailedFile)
    /\ \E r \in Runs : /\ Perf(r) /\ Done(r) /\ Has(r, "reportWritten")
                       /\ promise[r] = "ENOENT unlink summary" /\ Exists(reportFile)


\* ------------------------------------------------------------------------
\* generateCustomHtmlReport on its own: a call with the metrics of a summary
\* and an insight text, and the page it writes opened in a browser.

\* JavaScript values the figures take: numbers (a fraction num/den once a
\* division has produced them), NaN, Infinity, undefined, strings.
Number(n) == [t |-> "number", num |-> n, den |-> 1, s |-> ""]
Fraction(n, d) == [t |-> "number", num |-> n, den |-> d, s |-> ""]
NaN == [t |-> "NaN", num |-> 0, den |-> 1, s |-> ""]
Infinity == [t |-> "Infinity", num |-> 0, den |-> 1, s |-> ""]
Undefined == [t |-> "undefined", num |-> 0, den |-> 1, s |-> ""]
Str(text) == [t |-> "string", num |-> 0, den |-> 1, s |-> text]

\* The sentinel 'N/A'.
NA == Str("N/A")

\* What if, ||, ?: take for true.
Truthy(v) ==
    CASE v.t = "number" -> v.num # 0
      [] v.t = "string" -> v.s # ""
      [] v.t = "Infinity" -> TRUE
      [] OTHER -> FALSE

\* a || b
Or(a, b) == IF Truthy(a) THEN a ELSE b

\* The number an operand of / or * is converted to: undefined and a string
\* that is no numeral give NaN, the empty string gives 0.
ToNumber(v) ==
    CASE v.t = "undefined" -> NaN
      [] v.t = "string" -> IF v.s = "" THEN Number(0) ELSE NaN
      [] OTHER -> v

\* a / b on operands that are not negative.
Div(a, b) ==
    LET x == ToNumber(a)
        y == ToNumber(b)
    IN  CASE x.t = "NaN" \/ y.t = "NaN" -> NaN
          [] x.t = "Infinity" -> IF y.t = "Infinity" THEN NaN ELSE Infinity
          [] y.t = "Infinity" -> Number(0)
          [] y.num = 0 -> IF x.num = 0 THEN NaN ELSE Infinity
          [] OTHER -> Fraction(x.num * y.den, x.den * y.num)

\* a * b on operands that are not negative.
Mul(a, b) ==
    LET x == ToNumber(a)
        y == ToNumber(b)
    IN  CASE x.t = "NaN" \/ y.t = "NaN" -> NaN
          [] x.t = "Infinity" -> IF y.t = "number" /\ y.num = 0 THEN NaN ELSE Infinity
          [] y.t = "Infinity" -> IF x.num = 0 THEN NaN ELSE Infinity
          [] OTHER -> Fraction(x.num * y.num, x.den * y.den)

\* Number.prototype.toFixed(2): the value rounded to hundredths, written with
\* two decimals; "NaN" and "Infinity" for the values that are no number.
ToFixed2(v) ==
    CASE v.t = "NaN" -> Str("NaN")
      [] v.t = "Infinity" -> Str("Infinity")
      [] OTHER ->
           LET h == (2 * 100 * v.num + v.den) \div (2 * v.den)
           IN  Str(ToString(h \div 100) \o "." \o ToString((h % 100) \div 10)
                   \o ToString(h % 10))

\* `${v}` in a template literal.
Show(v) ==
    CASE v.t = "string" -> v.s
      [] v.t = "number" -> IF v.num % v.den = 0 THEN ToString(v.num \div v.den)
                           ELSE ToString(v.num) \o "/" \o ToString(v.den)
      [] OTHER -> v.t

\* metrics?.key: the record of the metric, or nothing.
Missing == <<>>
Metric(metrics, key) == IF key \in DOMAIN metrics THEN metrics[key] ELSE Missing

\* object?.field and object.field of an object that is there.
Prop(object, field) ==
    IF field \in DOMAIN object THEN Number(object[field]) ELSE Undefined

\* The 33 rows of metricsMapping: label and key, in the order of the list.
MetricsMapping ==
    << [label |-> "Total HTTP Requests", key |-> "http_reqs"],
       [label |-> "Request Rate (req/sec)", key |-> "http_reqs"],
       [label |-> "Response Time (ms)", key |-> "http_req_duration"],
       [label |-> "90th Percentile Response Time", key |-> "http_req_duration"],
       [label |-> "95th Percentile Response Time", key |-> "http_req_duration"],
       [label |-> "Wait Time (ms)", key |-> "http_req_waiting"],
       [label |-> "90th Percentile Wait Time", key |-> "http_req_waiting"],
       [label |-> "95th Percentile Wait Time", key |-> "http_req_waiting"],
       [label |-> "Virtual Users (VUs)", key |-> "vus"],
       [label |-> "Data Sent (bytes)", key |-> "data_sent"],
       [label |-> "Data Received (bytes)", key |-> "data_received"],
       [label |-> "Total Iterations", key |-> "iterations"],
       [label |-> "TLS Handshaking Time (ms)", key |-> "tls_handshaking"],
       [label |-> "90th Percentile TLS Time", key |-> "tls_handshaking"],
       [label |-> "95th Percentile TLS Time", key |-> "tls_handshaking"],
       [label |-> "HTTP Request Failures", key |-> "http_req_failed"],
       [label |-> "Checks Passed", key |-> "checks"],
       [label |-> "Iteration Duration (ms)", key |-> "iteration_duration"],
       [label |-> "90th Percentile Iteration Time", key |-> "iteration_duration"],
       [label |-> "95th Percentile Iteration Time", key |-> "iteration_duration"],
       [label |-> "Receiving Time (ms)", key |-> "http_req_receiving"],
       [label |-> "90th Percentile Receiving Time", key |-> "http_req_receiving"],
       [label |-> "95th Percentile Receiving Time", key |-> "http_req_receiving"],
       [label |-> "Blocked Time (ms)", key |-> "blocked_time"],
       [label |-> "90th Percentile Blocked Time", key |-> "blocked_time"],
       [label |-> "95th Percentile Blocked Time", key |-> "blocked_time"],
       [label |-> "Max Virtual Users (VUs Max)", key |-> "vus_max"],
       [label |-> "Sending Time (ms)", key |-> "http_req_sending"],
       [label |-> "90th Percentile Sending Time", key |-> "http_req_sending"],
       [label |-> "95th Percentile Sending Time", key |-> "http_req_sending"],
       [label |-> "Connecting Time (ms)", key |-> "http_req_connecting"],
       [label |-> "90th Percentile Connecting Time", key |-> "http_req_connecting"],
       [label |-> "95th Percentile Connecting Time", key |-> "http_req_connecting"] >>

\* The metric names the list knows.
Keys == {MetricsMapping[i].key : i \in DOMAIN MetricsMapping}

\* metricsMapping.map(...).join(''): a row for every entry of the list whose
\* metric is in the summary, nothing for the others.
RECURSIVE RowsFrom(_, _)
RowsFrom(metrics, i) ==
    IF i > Len(MetricsMapping) THEN <<>>
    ELSE (IF MetricsMapping[i].key \in DOMAIN metrics
          THEN <<MetricsMapping[i]>> ELSE <<>>) \o RowsFrom(metrics, i + 1)

tableRows(metrics) == RowsFrom(metrics, 1)

\* The figures of the runPerformanceTest variant.
totalRequests(metrics) == Or(Prop(Metric(metrics, "http_reqs"), "count"), NA)

duration(metrics) ==
    LET avg == Prop(Metric(metrics, "http_req_duration"), "avg")
    IN  IF avg.t = "undefined" THEN NA ELSE ToFixed2(avg)

vus(metrics) == Or(Prop(Metric(metrics, "vus"), "value"), NA)

throughput(metrics) ==
    ToFixed2(Div(totalRequests(metrics),
                 Div(Prop(Metric(metrics, "iteration_duration"), "max"), Number(1000))))

iterations(metrics) == Or(Prop(Metric(metrics, "iterations"), "count"), NA)

errorRate(metrics) ==
    Str(ToFixed2(Mul(Div(Or(Prop(Metric(metrics, "checks"), "fails"), Number(0)),
                         totalRequests(metrics)),
                     Number(100))).s \o "%")

passCount(metrics) ==
    IF "checks" \in DOMAIN metrics THEN Prop(metrics["checks"], "passes") ELSE NA

failCount(metrics) ==
    IF "checks" \in DOMAIN metrics THEN Prop(metrics["checks"], "fails") ELSE NA

\* The summary cards of the two variants: heading and the text under it.
PerfTiles(metrics) ==
    [h \in {"Total Requests", "Time Duration", "Virtual Users", "Throughput",
            "Pass Count", "Fail Count", "Iterations", "Error Rate"} |->
        CASE h = "Total Requests" -> Show(totalRequests(metrics))
          [] h = "Time Duration" -> Show(duration(metrics)) \o "ms"
          [] h = "Virtual Users" -> Show(vus(metrics))
          [] h = "Throughput" -> Show(throughput(metrics)) \o "ms"
          [] h = "Pass Count" -> Show(passCount(metrics))
          [] h = "Fail Count" -> Show(failCount(metrics))
          [] h = "Iterations" -> Show(iterations(metrics))
          [] h = "Error Rate" -> Show(errorRate(metrics))]

K6Tiles(metrics) ==
    [h \in {"Total Requests", "Duration", "Virtual Users", "Avg Response Time",
            "Pass Count", "Fail Count"} |->
        CASE h = "Total Requests" -> Show(totalRequests(metrics))
          [] h = "Duration" -> Show(duration(metrics)) \o "ms"
          [] h = "Virtual Users" -> Show(vus(metrics))
          [] h = "Avg Response Time" -> Show(duration(metrics)) \o "ms"
          [] h = "Pass Count" -> Show(passCount(metrics))
          [] h = "Fail Count" -> Show(failCount(metrics))]

\* JSON.stringify(jsonData) as the page's jsonData literal: every metric and
\* every field of a parsed summary is a number and is kept.
Embedded(metrics) ==
    [k \in DOMAIN metrics |-> [f \in DOMAIN metrics[k] |-> metrics[k][f]]]

\* The fields the chart scripts of the two variants read, in order.
ChartFields(fn) ==
    IF fn = "runK6Test"
    THEN <<"min", "med", "avg", "max", "p90", "p95">>
    ELSE <<"min", "med", "avg", "max", "p(90)", "p(95)">>

\* data: [jsonData.metrics.<key>.min, ...] as the page evaluates it.
Dataset(fn, metrics, key) ==
    [i \in DOMAIN ChartFields(fn) |-> Prop(metrics[key], ChartFields(fn)[i])]

\* Summaries: the trend the specification gives as its example, a trend of
\* zeros, a slow trend; counters, gauges and rates.
MaxCount == 1
MaxMillis == 2000
MaxVaried == 2

Trend(min, med, avg, max, p90, p95) ==
    [min |-> min, med |-> med, avg |-> avg, max |-> max]
        @@ ("p(90)" :> p90 @@ "p(95)" :> p95)
ExampleTrend == Trend(5, 10, 12, 50, 30, 40)
ZeroTrend == Trend(0, 0, 0, 0, 0, 0)
SlowTrend == Trend(5, 10, 12, MaxMillis, 30, 40)
Counter(c) == [count |-> c, rate |-> c]
Gauge(v) == [value |-> v, min |-> v, max |-> v]
Rate(p, f) == [passes |-> p, fails |-> f]

\* The summaries with at most MaxVaried of the known metrics, or with all but
\* at most MaxVaried of them.
KeySets ==
    {P \in SUBSET Keys :
        Cardinality(P) <= MaxVaried \/ Cardinality(Keys \ P) <= MaxVaried}

SummaryOf(P, c, f, it) ==
    [k \in P |->
        CASE k = "http_reqs" -> Counter(c)
          [] k = "iterations" -> Counter(MaxCount)
          [] k \in {"data_sent", "data_received"} -> Counter(MaxCount)
          [] k = "checks" -> Rate(MaxCount, f)
          [] k = "http_req_failed" -> Rate(MaxCount, 0)
          [] k \in {"vus", "vus_max"} -> Gauge(MaxCount)
          [] k = "iteration_duration" -> it
          [] OTHER -> ExampleTrend]

Summaries ==
    {SummaryOf(P, c, f, it) :
        P \in KeySets, c \in 0..MaxCount, f \in 0..MaxCount,
        it \in {ZeroTrend, SlowTrend}}

\* The insights a call is given: one with a table, prose with none.
Insights == {<<" ", "x", "<table", ">", "</table>", "x", " ">>, <<"x">>}

InitRender ==
    /\ PipelineIdle
    /\ SynthIdle
    /\ CopierIdle
    /\ CliIdle
    /\ summary \in Summaries
    /\ insightText \in Insights
    /\ html = NoHtml
    /\ charts = NoCharts

\* One call of generateCustomHtmlReport(jsonData, aiAnalysis, reportPath) of
\* variant fn: the figures and rows are computed, then the panel (which may
\* throw), then the document is written.
GenerateCustomHtmlReport(fn) ==
    /\ html.state = "none"
    /\ LET built == AnalysisPanel(fn, insightText)
       IN  html' = IF built.thrown # ""
                   THEN [NoHtml EXCEPT !.state = "threw", !.fn = fn]
                   ELSE [state |-> "written",
                         fn |-> fn,
                         tiles |-> IF fn = "runK6Test"
                                   THEN K6Tiles(summary) ELSE PerfTiles(summary),
                         rows |-> IF fn = "runK6Test" THEN <<>> ELSE tableRows(summary),
                         panel |-> built.panel,
                         embedded |-> Embedded(summary)]
    /\ UNCHANGED <<summary, insightText, charts>>
    /\ UNCHANGED <<pc, params, locals, promise, console, events, files, synth, copier, cli>>

\* The written page is opened: its script builds the duration chart, then
\* the iteration chart; reading a field of a metric that is not in jsonData
\* ends the script with a TypeError.
LoadPage ==
    /\ html.state = "written"
    /\ charts.state = "none"
    /\ charts' =
         IF "http_req_duration" \notin DOMAIN html.embedded
         THEN [NoCharts EXCEPT !.state = "threw"]
         ELSE IF "iteration_duration" \notin DOMAIN html.embedded
         THEN [state |-> "threw",
               duration |-> Dataset(html.fn, html.embedded, "http_req_duration"),
               iteration |-> <<>>]
         ELSE [state |-> "drawn",
               duration |-> Dataset(html.fn, html.embedded, "http_req_duration"),
               iteration |-> Dataset(html.fn, html.embedded, "iteration_duration")]
    /\ UNCHANGED <<summary, insightText, html>>
    /\ UNCHANGED <<pc, params, locals, promise, console, events, files, synth, copier, cli>>

NextRender ==
    \/ GenerateCustomHtmlReport("runPerformanceTest")
    \/ GenerateCustomHtmlReport("runK6Test")
    \/ LoadPage

SpecRender == InitRender /\ [][NextRender]_vars


\* The report of the runPerformanceTest variant, written.
PerfReportWritten == html.state = "written" /\ html.fn = "runPerformanceTest"

\* A figure as the sentinel, with or without the unit the card appends.
IsSentinel(text) == text \in {"N/A", "N/Ams"}

\* C13: in a written report of the runPerformanceTest variant the Error Rate
\* figure is never NaN or Infinity, and for a summary whose http_reqs.count is
\* 0 or absent it is the sentinel N/A.
C13_ErrorRateFallsBackToSentinel ==
    PerfReportWritten =>
        /\ html.tiles["Error Rate"] \notin {"NaN%", "Infinity%"}
        /\ ("http_reqs" \notin DOMAIN summary \/ summary["http_reqs"].count = 0)
           => IsSentinel(html.tiles["Error Rate"])

\* C14: in a written report of the runPerformanceTest variant the Throughput
\* figure is never NaN or Infinity; when total requests is the sentinel, or
\* iteration_duration is absent, or its max is 0, the figure is the sentinel.
C14_ThroughputGuardsItsDenominator ==
    PerfReportWritten =>
        /\ html.tiles["Throughput"] \notin {"NaNms", "Infinityms", "NaN", "Infinity"}
        /\ ( \/ html.tiles["Total Requests"] = "N/A"
             \/ "iteration_duration" \notin DOMAIN summary
             \/ summary["iteration_duration"].max = 0 )
           => IsSentinel(html.tiles["Throughput"])

\* C15: for a summary without a checks metric, generateCustomHtmlReport (either
\* variant) does not throw, and the report it writes shows N/A for Pass Count
\* and for Fail Count.
C15_NoChecksNoThrow ==
    (html.state # "none" /\ "checks" \notin DOMAIN summary) =>
        /\ html.state = "written"
        /\ html.tiles["Pass Count"] = "N/A"
        /\ html.tiles["Fail Count"] = "N/A"

\* The cards whose figure is computed from metric k.
TilesOf(k) ==
    CASE k = "http_reqs" -> {"Total Requests", "Throughput", "Error Rate"}
      [] k = "http_req_duration" -> {"Time Duration"}
      [] k = "vus" -> {"Virtual Users"}
      [] k = "iteration_duration" -> {"Throughput"}
      [] k = "iterations" -> {"Iterations"}
      [] k = "checks" -> {"Pass Count", "Fail Count"}
      [] OTHER -> {}

\* The places of metricsMapping whose metric is in the summary, ascending.
PresentPlaces(metrics) == {i \in DOMAIN MetricsMapping : MetricsMapping[i].key \in DOMAIN metrics}

\* C16: whichever of the known metrics a summary has, the runPerformanceTest
\* variant computes its cards and rows without throwing; an absent metric has
\* no row and the sentinel N/A on every card computed from it; the rows of
\* the metrics that are there follow the order of the metricsMapping list.
C16_AbsentMetricsSkippedWithSentinel ==
    /\ (html.state = "threw") => TableMatch(insightText) = NoMatch
    /\ PerfReportWritten =>
        /\ \A k \in Keys \ DOMAIN summary :
              /\ \A i \in DOMAIN html.rows : html.rows[i].key # k
              /\ \A h \in TilesOf(k) : IsSentinel(html.tiles[h])
        /\ Len(html.rows) = Cardinality(PresentPlaces(summary))
        /\ \A i \in DOMAIN html.rows :
              \E j \in PresentPlaces(summary) :
                  /\ html.rows[i] = MetricsMapping[j]
                  /\ Cardinality({m \in PresentPlaces(summary) : m < j}) = i - 1

\* The six values of a trend in the order of the chart's labels.
SixOf(trend) ==
    <<Number(trend.min), Number(trend.med), Number(trend.avg), Number(trend.max),
      Number(trend["p(90)"]), Number(trend["p(95)"])>>

\* C17: in either variant the duration chart's dataset is min, med, avg, max,
\* p(90), p(95) of http_req_duration in that order ([5,10,12,50,30,40] for the
\* example trend), and the iteration chart's dataset the same six values of
\* iteration_duration.
C17_ChartsReadTheEngineKeys ==
    /\ (charts.state # "none" /\ "http_req_duration" \in DOMAIN summary) =>
          /\ charts.duration = SixOf(summary["http_req_duration"])
          /\ summary["http_req_duration"] = ExampleTrend =>
                charts.duration = <<Number(5), Number(10), Number(12),
                                    Number(50), Number(30), Number(40)>>
    /\ charts.state = "drawn" =>
          charts.iteration = SixOf(summary["iteration_duration"])


\* ------------------------------------------------------------------------
\* Script synthesis on its own: the text of the options literal and of the
\* request function that main.ts, index.js and runPerformanceTest build.
\* A text is the sequence of its punctuation marks, quotes and words; white
\* space is left out.

MaxVus == 2
MaxIterations == 2
MaxStages == 2

Durations == {"30s", "1m"}

\* A delay answer: its numeral and the letters of its unit, as typed.
DelayTimes == {<<"1", "s">>, <<"500", "m", "s">>}

DQ == "\""
SQ == "'"
Marks == {"{", "}", "[", "]", "(", ")", ":", ",", ";", DQ, SQ}

\* \w+ of the key pattern.
IsWord(t) == t \notin Marks

\* The texts joined by commas.
RECURSIVE Join(_)
Join(texts) ==
    IF texts = <<>> THEN <<>>
    ELSE IF Len(texts) = 1 THEN texts[1]
    ELSE texts[1] \o <<",">> \o Join(Tail(texts))

\* JSON.stringify of a number, a string, an array and an object whose parts
\* are stringified already.
JsonNumber(n) == <<ToString(n)>>
JsonString(str) == <<DQ, str, DQ>>
JsonArray(texts) == <<"[">> \o Join(texts) \o <<"]">>
JsonObject(fields) ==
    <<"{">> \o Join([i \in DOMAIN fields |->
                        JsonString(fields[i].key) \o <<":">> \o fields[i].text])
            \o <<"}">>

\* .replace(/"(\w+)":/g, '$1:')
RECURSIVE Unkey(_)
Unkey(text) ==
    IF text = <<>> THEN <<>>
    ELSE IF /\ Len(text) >= 4
            /\ text[1] = DQ /\ IsWord(text[2]) /\ text[3] = DQ /\ text[4] = ":"
         THEN <<text[2], ":">> \o Unkey(SubSeq(text, 5, Len(text)))
         ELSE <<text[1]>> \o Unkey(Tail(text))

\* Mutant: the quote replacement without the g flag, first match only.
RequoteFirstOnly(text) ==
    [i \in DOMAIN text |->
        IF text[i] = DQ /\ \A j \in 1..(i - 1) : text[j] # DQ THEN SQ ELSE text[i]]

\* .replace(/"/g, "'")
Requote(text) == [i \in DOMAIN text |-> IF text[i] = DQ THEN SQ ELSE text[i]]

\* String.prototype.replace(what, with) of a string pattern: the first
\* occurrence only.
RECURSIVE ReplaceFirst(_, _, _)
ReplaceFirst(text, what, with) ==
    IF text = <<>> THEN <<>>
    ELSE IF text[1] = what THEN with \o Tail(text)
    ELSE <<text[1]>> \o ReplaceFirst(Tail(text), what, with)

\* parseFloat: the numeral a string starts with, NaN when it starts with
\* none.
ParseFloat(text) ==
    IF text # <<>> /\ text[1] \notin {"m", "s"} THEN text[1] ELSE "NaN"

\* The answers of a session of main.ts.  iterations and delayTime are asked
\* for only after a "yes", rampTime and peakVus likewise.
MainAnswers ==
    {[by |-> "main.ts", vus |-> v, duration |-> d,
      iterationsRequired |-> ir, iterations |-> it,
      delayRequired |-> dr, delayTime |-> dt,
      rampUpRequired |-> rr, rampTime |-> rt, peakVus |-> pv] :
        v \in 1..MaxVus, d \in Durations,
        ir \in {"yes", "no"}, it \in 0..MaxIterations,
        dr \in {"yes", "no"}, dt \in DelayTimes \cup {<<>>},
        rr \in {"yes", "no"}, rt \in {"10s", ""}, pv \in 0..MaxVus}

MainSessions ==
    {a \in MainAnswers :
        /\ (a.iterationsRequired = "yes") = (a.iterations > 0)
        /\ (a.delayRequired = "yes") = (a.delayTime # <<>>)
        /\ (a.rampUpRequired = "yes") = (a.rampTime # "")
        /\ (a.rampUpRequired = "yes") = (a.peakVus > 0)}

\* The answers of a session of index.js.
IndexSessions ==
    {[by |-> "index.js", vus |-> v, duration |-> d,
      iterationsRequired |-> IF it > 0 THEN "yes" ELSE "no", iterations |-> it] :
        v \in 1..MaxVus, d \in Durations, it \in 0..MaxIterations}

\* params.options of runPerformanceTest: an object whose fields keep the
\* order the caller wrote them in.
Stages == [duration : Durations, target : 1..MaxVus]
StageLists == UNION {[1..n -> Stages] : n \in 1..MaxStages}
VusField(v) == [key |-> "vus", num |-> v, str |-> "", stages |-> <<>>]
DurationField(d) == [key |-> "duration", num |-> 0, str |-> d, stages |-> <<>>]
StagesField(l) == [key |-> "stages", num |-> 0, str |-> "", stages |-> l]

OptionsInputs ==
    {<<VusField(v), DurationField(d)>> : v \in 1..MaxVus, d \in Durations}
    \cup {<<DurationField(d), VusField(v)>> : v \in 1..MaxVus, d \in Durations}
    \cup {<<StagesField(l)>> : l \in StageLists}
    \cup {<<VusField(v), DurationField(d), StagesField(l)>> :
              v \in 1..MaxVus, d \in Durations, l \in StageLists}
    \cup {<<StagesField(l), VusField(v), DurationField(d)>> :
              v \in 1..MaxVus, d \in Durations, l \in StageLists}

PerfCalls == {[by |-> "runPerformanceTest", options |-> o] : o \in OptionsInputs}

InitScript ==
    /\ PipelineIdle
    /\ RendererIdle
    /\ CopierIdle
    /\ CliIdle
    /\ \/ answers \in MainSessions
       \/ answers \in IndexSessions
       \/ answers \in PerfCalls
    /\ k6Script = NoScript

\* export const options = { vus: ${vus}, duration: '${duration}', };
FlatOptions(v, d) ==
    <<"{", "vus", ":", ToString(v), ",", "duration", ":", SQ, d, SQ, ",", "}">>

\* JSON.stringify(rampUpStages) of main.ts: every answer is a string.
RampUpStages(a) ==
    JsonArray(<< JsonObject(<<[key |-> "duration", text |-> JsonString(a.rampTime)],
                             [key |-> "target", text |-> JsonString(ToString(a.peakVus))]>>),
                 JsonObject(<<[key |-> "duration", text |-> JsonString(a.duration)],
                             [key |-> "target", text |-> JsonString(ToString(a.vus))]>>) >>)

\* export const options = { stages: ${JSON.stringify(rampUpStages)}, };
StagesOptions(a) == <<"{", "stages", ":">> \o RampUpStages(a) \o <<",", "}">>

\* iterationsSnippet of main.ts.
MainIterationsSnippet(a) ==
    IF a.iterationsRequired = "yes"
    THEN <<"for", ToString(a.iterations), "{", "http.get", ";", "__DELAY__", ";", "}">>
    ELSE <<"http.get", ";">>

\* delaySnippet of main.ts: sleep(${parseFloat(delayTime.replace("s", ""))});
DelaySnippet(a) ==
    IF a.delayRequired = "yes"
    THEN <<"sleep", "(", ParseFloat(ReplaceFirst(a.delayTime, "s", <<>>)), ")", ";">>
    ELSE <<>>

\* main.ts builds k6Script.
MainTsScript ==
    /\ answers.by = "main.ts"
    /\ k6Script.by = "none"
    /\ k6Script' =
         [by |-> "main.ts",
          options |-> IF answers.rampUpRequired = "yes"
                      THEN StagesOptions(answers)
                      ELSE FlatOptions(answers.vus, answers.duration),
          body |-> ReplaceFirst(MainIterationsSnippet(answers), "__DELAY__",
                                DelaySnippet(answers))]
    /\ UNCHANGED <<answers, renderer>>
    /\ UNCHANGED <<pc, params, locals, promise, console, events, files, copier, cli>>

\* index.js builds k6Script.
IndexJsScript ==
    /\ answers.by = "index.js"
    /\ k6Script.by = "none"
    /\ k6Script' =
         [by |-> "index.js",
          options |-> FlatOptions(answers.vus, answers.duration),
          body |-> IF answers.iterationsRequired = "yes"
                   THEN <<"for", ToString(answers.iterations), "{", "http.get", ";", "}">>
                   ELSE <<"http.get", ";">>]
    /\ UNCHANGED <<answers, renderer>>
    /\ UNCHANGED <<pc, params, locals, promise, console, events, files, copier, cli>>

\* JSON.stringify(options, null, 4) of the caller's object.
OptionsJson(options) ==
    JsonObject([i \in DOMAIN options |->
        [key |-> options[i].key,
         text |-> CASE options[i].key = "vus" -> JsonNumber(options[i].num)
                    [] options[i].key = "duration" -> JsonString(options[i].str)
                    [] OTHER ->
                         JsonArray([j \in DOMAIN options[i].stages |->
                             JsonObject(<<[key |-> "duration",
                                           text |-> JsonString(options[i].stages[j].duration)],
                                          [key |-> "target",
                                           text |-> JsonNumber(options[i].stages[j].target)]>>)])]])

optionsString(options) == Requote(Unkey(OptionsJson(options)))

\* runPerformanceTest builds k6Script.
RunPerformanceTestScript ==
    /\ answers.by = "runPerformanceTest"
    /\ k6Script.by = "none"
    /\ k6Script' =
         [by |-> "runPerformanceTest",
          options |-> optionsString(answers.options),
          body |-> <<"http.get", ";", "check", ";", "sleep", "(", "1", ")", ";">>]
    /\ UNCHANGED <<answers, renderer>>
    /\ UNCHANGED <<pc, params, locals, promise, console, events, files, copier, cli>>

NextScript ==
    \/ MainTsScript
    \/ IndexJsScript
    \/ RunPerformanceTestScript

SpecScript == InitScript /\ [][NextScript]_vars


\* Reading a synthesised options literal back.  Depth of the token at place
\* i: the brackets opened and not closed before it.
Depth(text, i) ==
    Cardinality({j \in 1..(i - 1) : text[j] \in {"{", "["}})
        - Cardinality({j \in 1..(i - 1) : text[j] \in {"}", "]"}})

\* The places of the literal's own field names, ascending, and the names.
KeyPlaces(text) ==
    LET IsKey(i) == /\ i < Len(text) /\ IsWord(text[i])
                    /\ text[i + 1] = ":" /\ Depth(text, i) = 1
    IN  SelectSeq([i \in DOMAIN text |-> i], IsKey)

OptionKeys(text) == [n \in DOMAIN KeyPlaces(text) |-> text[KeyPlaces(text)[n]]]

HasKey(text, key) == \E n \in DOMAIN OptionKeys(text) : OptionKeys(text)[n] = key

\* The text of the value of field key: from after its colon to the comma or
\* brace that ends it.
FieldText(text, key) ==
    LET i == CHOOSE i \in DOMAIN text :
                 /\ text[i] = key /\ i < Len(text) /\ text[i + 1] = ":"
                 /\ Depth(text, i) = 1
        j == CHOOSE j \in (i + 2)..Len(text) :
                 /\ text[j] \in {",", "}"} /\ Depth(text, j) = 1
                 /\ \A m \in (i + 2)..(j - 1) :
                        ~(text[m] \in {",", "}"} /\ Depth(text, m) = 1)
    IN  SubSeq(text, i + 2, j - 1)

\* A text without its quotes.
Words(text) == LET NoQuote(t) == t \notin {DQ, SQ} IN SelectSeq(text, NoQuote)

\* A string literal with content str.
IsStringLiteral(text, str) == text = <<SQ, str, SQ>> \/ text = <<DQ, str, DQ>>

\* The stages of a stages list, each as <<duration, target>>, in order.
StagePairs(text) ==
    LET w == Words(text)
        After(name) == LET Is(i) == i < Len(w) /\ w[i] = name /\ w[i + 1] = ":"
                       IN  SelectSeq([i \in DOMAIN w |-> i], Is)
    IN  [n \in DOMAIN After("duration") |->
            <<w[After("duration")[n] + 2], w[After("target")[n] + 2]>>]

\* What the configuration supplies: its stages, if any, its virtual-user
\* count and its duration.
Field(options, key) == options[CHOOSE i \in DOMAIN options : options[i].key = key]

HasStages ==
    CASE answers.by = "main.ts" -> answers.rampUpRequired = "yes"
      [] answers.by = "runPerformanceTest" ->
            \E i \in DOMAIN answers.options : answers.options[i].key = "stages"
      [] OTHER -> FALSE

SuppliedStages ==
    IF answers.by = "main.ts"
    THEN << <<answers.rampTime, ToString(answers.peakVus)>>,
            <<answers.duration, ToString(answers.vus)>> >>
    ELSE LET l == Field(answers.options, "stages").stages
         IN  [n \in DOMAIN l |-> <<l[n].duration, ToString(l[n].target)>>]

SuppliedVus ==
    IF answers.by = "runPerformanceTest"
    THEN Field(answers.options, "vus").num ELSE answers.vus

SuppliedDuration ==
    IF answers.by = "runPerformanceTest"
    THEN Field(answers.options, "duration").str ELSE answers.duration

Synthesised == k6Script.by # "none"

\* C18: for a configuration with ramp stages (main.ts, and runPerformanceTest
\* whatever else the caller's options carry) the options literal of the script
\* has a stages list, no top-level vus or duration, and the stages in the
\* order supplied.
C18_StagesTakePrecedence ==
    (Synthesised /\ HasStages) =>
        /\ HasKey(k6Script.options, "stages")
        /\ ~HasKey(k6Script.options, "vus")
        /\ ~HasKey(k6Script.options, "duration")
        /\ StagePairs(FieldText(k6Script.options, "stages")) = SuppliedStages

SecondsOf(delayTime) == IF delayTime = <<"500", "m", "s">> THEN "0.5" ELSE delayTime[1]

\* The places of the GETs in a request function.
GetPlaces(body) == {i \in DOMAIN body : body[i] = "http.get"}

\* C20: in a script of main.ts, whatever the iterations and delay answers: no
\* __DELAY__ is left; the GET is in a loop of N rounds when N iterations were
\* asked for and is issued once, outside any loop, otherwise; and when a delay
\* was asked for, every GET is followed by a sleep of that delay.
C20_DelayAndIterationsCombine ==
    k6Script.by = "main.ts" =>
        LET body == k6Script.body
        IN  /\ \A i \in DOMAIN body : body[i] # "__DELAY__"
            /\ Cardinality(GetPlaces(body)) = 1
            /\ IF answers.iterationsRequired = "yes"
               THEN body[1] = "for" /\ body[2] = ToString(answers.iterations)
               ELSE \A i \in DOMAIN body : body[i] # "for"
            /\ answers.delayRequired = "yes" =>
                  \A i \in GetPlaces(body) :
                      /\ i + 5 <= Len(body)
                      /\ SubSeq(body, i + 1, i + 5) =
                            <<";", "sleep", "(", SecondsOf(answers.delayTime), ")">>


\* ------------------------------------------------------------------------
\* The detailed copy on its own: temp_report.json is parsed, the parsed
\* summary is written to detailedReportjson with JSON.stringify(jsonData,
\* null, 2), and that file is parsed again.  A summary text is the object
\* { "metrics": { ... } } given by the members of its metrics object in the
\* order of the text: a name and a number literal each.

MaxMembers == 2

Names == {"a", "b"}

\* Number literals: zero, negative zero, an integer, the same with a
\* fraction part, one beyond the range of a double.
Literals == {"0", "-0", "1", "1.0", "1e400"}

MemberLists == UNION {[1..n -> [key : Names, lit : Literals]] : n \in 0..MaxMembers}

SummaryTexts == {[key |-> "metrics", fields |-> f] : f \in MemberLists}

\* The value JSON.parse makes of a literal: a double, Infinity for a number
\* beyond the range, null for null.
ValueOf(lit) ==
    CASE lit = "1e400" -> [t |-> "Infinity", v |-> ""]
      [] lit = "null" -> [t |-> "null", v |-> ""]
      [] lit = "1.0" -> [t |-> "number", v |-> "1"]
      [] OTHER -> [t |-> "number", v |-> lit]

\* The names of an object in the order its properties were created: each at
\* its first place in the text.
RECURSIVE KeysOf(_)
KeysOf(members) ==
    IF members = <<>> THEN <<>>
    ELSE LET rest == KeysOf(SubSeq(members, 1, Len(members) - 1))
             last == members[Len(members)].key
         IN  IF \E i \in DOMAIN rest : rest[i] = last THEN rest ELSE Append(rest, last)

\* JSON.parse of an object: of two members with one name the later wins.
ParseObject(members) ==
    [keys |-> KeysOf(members),
     at |-> [k \in {members[i].key : i \in DOMAIN members} |->
                ValueOf(members[CHOOSE i \in DOMAIN members :
                                   /\ members[i].key = k
                                   /\ \A j \in DOMAIN members :
                                          members[j].key = k => j <= i].lit)]]

JsonParse(text) == [key |-> text.key, object |-> ParseObject(text.fields)]

\* Mutant: a falsy number is written as null.
NumberTextFalsyAsNull(value) ==
    IF value.t # "number" \/ value.v \in {"0", "-0"} THEN "null" ELSE value.v

\* JSON.stringify of a value: the shortest numeral of a double, 0 for
\* negative zero, null for Infinity and null.
NumberText(value) ==
    IF value.t # "number" THEN "null"
    ELSE IF value.v = "-0" THEN "0" ELSE value.v

\* JSON.stringify(jsonData, null, 2): the properties in the order they were
\* created.
JsonStringify(model) ==
    [key |-> model.key,
     fields |-> [i \in DOMAIN model.object.keys |->
                    [key |-> model.object.keys[i],
                     lit |-> NumberText(model.object.at[model.object.keys[i]])]]]

InitCopy ==
    /\ PipelineIdle
    /\ RendererIdle
    /\ SynthIdle
    /\ CliIdle
    /\ summaryText \in SummaryTexts
    /\ parsedModel = <<>>
    /\ detailedText = <<>>
    /\ reparsedModel = <<>>

\* const jsonData = JSON.parse(fs.readFileSync(jsonReportPath, 'utf8'))
ParseSummaryText ==
    /\ parsedModel = <<>>
    /\ parsedModel' = JsonParse(summaryText)
    /\ UNCHANGED <<summaryText, detailedText, reparsedModel>>
    /\ UNCHANGED <<pc, params, locals, promise, console, events, files, renderer, synth, cli>>

\* fs.writeFileSync(detailedReportjson, JSON.stringify(jsonData, null, 2))
WriteDetailedCopy ==
    /\ parsedModel # <<>>
    /\ detailedText = <<>>
    /\ detailedText' = JsonStringify(parsedModel)
    /\ UNCHANGED <<summaryText, parsedModel, reparsedModel>>
    /\ UNCHANGED <<pc, params, locals, promise, console, events, files, renderer, synth, cli>>

\* A reader of the detailed copy parses it.
ReparseDetailedCopy ==
    /\ detailedText # <<>>
    /\ reparsedModel = <<>>
    /\ reparsedModel' = JsonParse(detailedText)
    /\ UNCHANGED <<summaryText, parsedModel, detailedText>>
    /\ UNCHANGED <<pc, params, locals, promise, console, events, files, renderer, synth, cli>>

NextCopy ==
    \/ ParseSummaryText
    \/ WriteDetailedCopy
    \/ ReparseDetailedCopy

SpecCopy == InitCopy /\ [][NextCopy]_vars

\* Two values are equal as === has it: zero and negative zero are.
SameValue(x, y) ==
    \/ x = y
    \/ x.t = "number" /\ y.t = "number" /\ {x.v, y.v} = {"0", "-0"}

\* Two parsed summaries are equal: the same names with equal values.
ModelEqual(m, n) ==
    /\ m.key = n.key
    /\ DOMAIN m.object.at = DOMAIN n.object.at
    /\ \A k \in DOMAIN m.object.at : SameValue(m.object.at[k], n.object.at[k])

\* Every number of the summary text is within the range of a double.
InRange(text) == \A i \in DOMAIN text.fields : text.fields[i].lit # "1e400"

\* C21 as claimed: for every summary JSON.parse accepts, the detailed copy,
\* parsed again, gives a model equal to the one parsed from the summary.
C21_DetailedCopyRoundTrip ==
    reparsedModel # <<>> => ModelEqual(reparsedModel, parsedModel)

\* C21 as amended: the same, for every summary JSON.parse accepts whose
\* numbers are all within the range of a double.
C21_DetailedCopyRoundTripInRange ==
    (reparsedModel # <<>> /\ InRange(summaryText)) =>
        ModelEqual(reparsedModel, parsedModel)

C21_Witness ==
    /\ reparsedModel # <<>>
    /\ InRange(summaryText)
    /\ summaryText.fields = <<[key |-> "a", lit |-> "1.0"], [key |-> "a", lit |-> "-0"]>>
    /\ detailedText.fields = <<[key |-> "a", lit |-> "0"]>>


\* ------------------------------------------------------------------------
\* Further claims on the runs of runPerformanceTest and runK6Test.

\* The messages the catch of the run labels as a failure of the AI analysis.
AnalysisLabelled ==
    {"Error during AI analysis: TypeError reading metrics",
     "Error during AI analysis: request failed",
     "Error during AI analysis: TypeError reading match",
     "Error during AI analysis: EACCES report"}

\* C22: every run of runPerformanceTest that ends without having written its
\* report has logged an error or rejected; and the message names the stage
\* that failed: a missing parameter is reported as such, a spawn failure as
\* an engine error, a failed request as a request error, and a run whose
\* analysis request was answered has no message that blames the analysis.
C22_FailuresSurfacedByStage ==
    \A r \in Runs :
        (Perf(r) /\ Done(r)) =>
            /\ ~Has(r, "reportWritten") => (console[r] # <<>> \/ Rejected(r))
            /\ Incomplete(params[r]) => Logged(r, "Missing required AI report parameters")
            /\ Has(r, "spawnFailed") => Logged(r, "Error running k6")
            /\ Has(r, "requestFailed") => Logged(r, "Error sending request to AI API")
            /\ Has(r, "requestAnswered") =>
                   \A m \in AnalysisLabelled : ~Logged(r, m)

\* C23: the promise of runPerformanceTest rejects when reportPath, AiUrl or
\* apikey is missing, and resolves when the engine has run and the analysis
\* request has completed.
C23_RejectsOnMissingParams ==
    \A r \in Runs :
        (Perf(r) /\ Done(r)) =>
            /\ Incomplete(params[r]) => Rejected(r)
            /\ (~Incomplete(params[r]) /\ RequestCompleted(r)) => promise[r] = "resolved"

\* C27: with runs one after the other (no other run under way), the summary
\* a run of runPerformanceTest has just parsed was exported by its own
\* engine invocation.
C27_ParsesItsOwnSummary ==
    \A r \in Runs :
        ( /\ Perf(r) /\ pc[r] = "saveDetailed"
          /\ \A q \in Runs \ {r} : pc[q] \in {"idle", "done"} )
        => jsonData[r].by = r

\* C29: a run of runK6Test whose analysis request failed has logged the
\* rethrown error, has written no report, has removed the summary and its
\* promise is resolved.
C29_K6AnalysisFailureIsCaught ==
    \A r \in Runs :
        (params[r].fn = "runK6Test" /\ Done(r) /\ Has(r, "requestFailed")) =>
            /\ Logged(r, "Error sending request to GPT")
            /\ Logged(r, "Error during AI analysis: request failed")
            /\ ~Has(r, "reportWritten")
            /\ Has(r, "summaryRemoved")
            /\ promise[r] = "resolved"


\* The statements of a run in the order of the function's text.
Statements ==
    <<"idle", "writeScript", "spawn", "unlinkScript", "checkResult", "readSummary",
      "saveDetailed", "callAi", "awaitAi", "render", "unlinkSummary", "done">>

Place(l) == CHOOSE i \in DOMAIN Statements : Statements[i] = l

\* A step of a run that has been called.
StepOfStartedRun ==
    \E r \in Runs :
        \/ WriteScript(r) \/ SpawnEngine(r) \/ UnlinkScript(r) \/ CheckResult(r)
        \/ ReadSummary(r) \/ SaveDetailed(r) \/ CallAi(r) \/ AiSettle(r)
        \/ Render(r) \/ UnlinkSummary(r)

\* C30: every started run ends, given that the engine exits and the endpoint
\* answers or fails.  While a run is under way some started run can take a
\* step; every step moves its run forward in the function's text (no loop,
\* no retry), so a run takes at most eleven steps; and a run is left waiting
\* while another one steps only before its call, at the pending request, or
\* after its end, where its promise is settled.
C30_RunsReachAnOutcome ==
    /\ []((\E r \in Runs : pc[r] \notin {"idle", "done"}) => ENABLED StepOfStartedRun)
    /\ [](\A r \in Runs : Done(r) <=> promise[r] \notin {"none", "pending"})
    /\ [][\A r \in Runs :
            /\ pc'[r] # pc[r] => Place(pc'[r]) > Place(pc[r])
            /\ \A q \in Runs \ {r} :
                   pc'[q] # pc[q] => pc[r] \in {"idle", "awaitAi", "done"}]_vars

C30_Witness ==
    \A r \in Runs :
        /\ Perf(r) /\ Done(r) /\ RequestCompleted(r)
        /\ events[r][Len(events[r])] = "summaryRemoved"


\* ---------------------------------------------------------------------------
\* The interactive command line tools: index.js and templates/src/tests/main.ts
\* ---------------------------------------------------------------------------

Programs == {"index.js", "main.ts"}

\* How the engine command ended: without error, with a non-zero exit code, or
\* killed by a signal (exit code null); whether it wrote to stderr; and the
\* test-summary.json the tool will find.
CliEngineOutcomes ==
    [error : {"none", "exit", "signal"}, stderr : BOOLEAN,
     summary : {"none", "valid", "invalid"}]

Endpoint == {"answered", "failed"}
Environment == {"set", "missing"}

\* The module-level identifiers for the endpoint that each file declares:
\* ai.ts declares both, index.js uses them without declaring them.
Declares(file) == IF file = "ai.ts" THEN {"API_KEY", "API_URL"} ELSE {}

\* Mutant: a callback that looks at the error only.
ExecFailureErrorOnly(error, stderr) == IF error THEN "error" ELSE "none"

\* The two early returns of an exec callback.
ExecFailure(error, stderr) ==
    IF error THEN "error" ELSE IF stderr THEN "stderr" ELSE "none"

\* getGPTResponse of the given file: evaluating the arguments of axios.post
\* throws a ReferenceError when API_URL or API_KEY is not declared, before
\* any request is made; otherwise one request is sent and its outcome decides.
GetGPTResponse(file, response) ==
    IF ~({"API_URL", "API_KEY"} \subseteq Declares(file))
    THEN [request |-> "none", thrown |-> TRUE]
    ELSE [request |-> response, thrown |-> response = "failed"]

\* generateReport.ts run as a process of its own, to its exit: what the
\* parent's callback will see, and what the process did.
GenerateReportTs(env, file, response, writable) ==
    IF env = "missing"
    THEN [error |-> TRUE, stderr |-> TRUE, request |-> "none", written |-> FALSE]
    ELSE IF file # "valid"
    THEN [error |-> FALSE, stderr |-> TRUE, request |-> "none", written |-> FALSE]
    ELSE LET g == GetGPTResponse("ai.ts", response)
         IN  [error |-> FALSE, stderr |-> g.thrown \/ ~writable,
              request |-> g.request, written |-> ~g.thrown /\ writable]

InitCli ==
    /\ PipelineIdle /\ RendererIdle /\ SynthIdle /\ CopierIdle
    /\ program \in Programs
    /\ cliPc = "prompts"
    /\ engine = NoEngine
    /\ reporter = NoReporter
    /\ rlOpen = TRUE
    /\ cliConsole = <<>>
    /\ cliEvents = <<>>

\* The prompts are answered, the script is written and the engine started.
StartEngine ==
    /\ cliPc = "prompts"
    /\ cliPc' = "engine"
    /\ cliConsole' = cliConsole \o <<"K6 script generated">>
    /\ cliEvents' = cliEvents \o <<"engineStarted">>
    /\ UNCHANGED <<program, engine, reporter, rlOpen>>
    /\ UNCHANGED <<pc, params, locals, promise, console, events, files, renderer, synth, copier>>

\* index.js: the callback of exec, with the start of generateReport up to its
\* await, and rl.close().
IndexExecCallback ==
    /\ program = "index.js"
    /\ cliPc = "engine"
    /\ \E e \in CliEngineOutcomes :
        /\ engine' = e
        /\ LET failure == ExecFailure(e.error # "none", e.stderr)
               g == GetGPTResponse("index.js", "answered")
           IN  CASE failure = "error" ->
                     /\ cliConsole' = cliConsole \o <<"Error running K6 test">>
                     /\ cliEvents' = cliEvents \o <<"engineEnded">>
                     /\ cliPc' = "returned"
                     /\ UNCHANGED <<reporter, rlOpen>>
                 [] failure = "stderr" ->
                     /\ cliConsole' = cliConsole \o <<"stderr">>
                     /\ cliEvents' = cliEvents \o <<"engineEnded">>
                     /\ cliPc' = "returned"
                     /\ UNCHANGED <<reporter, rlOpen>>
                 [] failure = "none" /\ e.summary = "none" ->
                     /\ cliConsole' = cliConsole \o
                            <<"Test completed", "Error: test-summary.json not found.">>
                     /\ cliEvents' = cliEvents \o <<"engineEnded", "rlClosed">>
                     /\ cliPc' = "closed"
                     /\ rlOpen' = FALSE
                     /\ UNCHANGED reporter
                 [] failure = "none" /\ e.summary = "invalid" ->
                     /\ cliConsole' = cliConsole \o <<"Test completed">>
                     /\ cliEvents' = cliEvents \o <<"engineEnded", "summaryRead">>
                     /\ cliPc' = "crashed"
                     /\ UNCHANGED <<reporter, rlOpen>>
                 [] OTHER ->
                     /\ cliConsole' = cliConsole \o
                            <<"Test completed", "AI is Generating Report...">> \o
                            (IF g.request = "none"
                             THEN <<"Error while calling OpenAI API">> ELSE <<>>)
                     /\ cliEvents' = cliEvents \o <<"engineEnded", "summaryRead">> \o
                            (IF g.request = "none" THEN <<>> ELSE <<"requestSent">>) \o
                            <<"rlClosed">>
                     /\ reporter' = [error |-> FALSE, stderr |-> FALSE,
                                     request |-> IF g.request = "none" THEN "none"
                                                 ELSE "pending"]
                     /\ cliPc' = "reportPending"
                     /\ rlOpen' = FALSE
    /\ UNCHANGED program
    /\ UNCHANGED <<pc, params, locals, promise, console, events, files, renderer, synth, copier>>

\* index.js: generateReport resumes after its await.
IndexGenerateReportResume ==
    /\ program = "index.js"
    /\ cliPc = "reportPending"
    /\ \E response \in Endpoint, writable \in BOOLEAN :
        LET g == GetGPTResponse("index.js", response)
        IN  /\ reporter' = [reporter EXCEPT !.request = g.request]
            /\ IF ~g.thrown /\ writable
               THEN /\ cliConsole' = cliConsole \o <<"Generated Report", "Report saved">>
                    /\ cliEvents' = cliEvents \o <<"reportWritten">>
               ELSE /\ cliConsole' = cliConsole \o
                           (IF g.request = "failed"
                            THEN <<"Error while calling OpenAI API">> ELSE <<>>) \o
                           <<"Error generating the report">>
                    /\ UNCHANGED cliEvents
    /\ cliPc' = "closed"
    /\ UNCHANGED <<program, engine, rlOpen>>
    /\ UNCHANGED <<pc, params, locals, promise, console, events, files, renderer, synth, copier>>

\* main.ts: the engine writes to stderr while it runs.
MainStderrData ==
    /\ program = "main.ts"
    /\ cliPc = "engine"
    /\ ~engine.stderr
    /\ engine' = [engine EXCEPT !.stderr = TRUE]
    /\ cliConsole' = cliConsole \o <<"engine stderr">>
    /\ UNCHANGED <<program, cliPc, reporter, rlOpen, cliEvents>>
    /\ UNCHANGED <<pc, params, locals, promise, console, events, files, renderer, synth, copier>>

\* Mutant: the report is generated only after a successful engine run.
MainCloseOnSuccessOnly ==
    /\ program = "main.ts"
    /\ cliPc = "engine"
    /\ \E e \in CliEngineOutcomes :
        /\ e.stderr = engine.stderr
        /\ engine' = e
        /\ cliConsole' = cliConsole \o <<"K6 test completed with exit code">>
        /\ IF e.error = "none"
           THEN /\ cliEvents' = cliEvents \o <<"engineClosed", "reporterStarted">>
                /\ cliPc' = "reporter"
           ELSE /\ cliEvents' = cliEvents \o <<"engineClosed">>
                /\ cliPc' = "returned"
    /\ UNCHANGED <<program, reporter, rlOpen>>
    /\ UNCHANGED <<pc, params, locals, promise, console, events, files, renderer, synth, copier>>

\* main.ts: the handler of the engine's "close" event.
MainClose ==
    /\ program = "main.ts"
    /\ cliPc = "engine"
    /\ \E e \in CliEngineOutcomes :
        /\ e.stderr = engine.stderr
        /\ engine' = e
    /\ cliConsole' = cliConsole \o
           <<"K6 test completed with exit code", "AI Generating the report...">>
    /\ cliEvents' = cliEvents \o <<"engineClosed", "reporterStarted">>
    /\ cliPc' = "reporter"
    /\ UNCHANGED <<program, reporter, rlOpen>>
    /\ UNCHANGED <<pc, params, locals, promise, console, events, files, renderer, synth, copier>>

\* main.ts: the report process runs and exits.
ReporterExit ==
    /\ program = "main.ts"
    /\ cliPc = "reporter"
    /\ \E env \in Environment, response \in Endpoint, writable \in BOOLEAN :
        LET out == GenerateReportTs(env, engine.summary, response, writable)
        IN  /\ reporter' = [error |-> out.error, stderr |-> out.stderr,
                            request |-> out.request]
            /\ cliEvents' = cliEvents \o
                   (IF out.request = "none" THEN <<>> ELSE <<"requestSent">>) \o
                   (IF out.written THEN <<"reportWritten">> ELSE <<>>)
    /\ cliPc' = "reporterExited"
    /\ UNCHANGED <<program, engine, rlOpen, cliConsole>>
    /\ UNCHANGED <<pc, params, locals, promise, console, events, files, renderer, synth, copier>>

\* main.ts: the callback of the exec that ran the report process.
MainReportCallback ==
    /\ program = "main.ts"
    /\ cliPc = "reporterExited"
    /\ LET failure == ExecFailure(reporter.error, reporter.stderr)
       IN  CASE failure = "error" ->
                 /\ cliConsole' = cliConsole \o <<"Error running generateReport.ts">>
                 /\ cliPc' = "returned"
                 /\ UNCHANGED <<rlOpen, cliEvents>>
             [] failure = "stderr" ->
                 /\ cliConsole' = cliConsole \o <<"stderr">>
                 /\ cliPc' = "returned"
                 /\ UNCHANGED <<rlOpen, cliEvents>>
             [] OTHER ->
                 /\ cliConsole' = cliConsole \o <<"stdout">>
                 /\ cliEvents' = cliEvents \o <<"rlClosed">>
                 /\ cliPc' = "closed"
                 /\ rlOpen' = FALSE
    /\ UNCHANGED <<program, engine, reporter>>
    /\ UNCHANGED <<pc, params, locals, promise, console, events, files, renderer, synth, copier>>

NextCli ==
    \/ StartEngine
    \/ IndexExecCallback
    \/ IndexGenerateReportResume
    \/ MainStderrData
    \/ MainClose
    \/ ReporterExit
    \/ MainReportCallback

SpecCli == InitCli /\ [][NextCli]_vars

\* How often an event is in the tool's history.
Times(e) == Cardinality({i \in DOMAIN cliEvents : cliEvents[i] = e})

\* The tool has no handler left to run.
Quiescent == cliPc \in {"returned", "closed"}

\* C24: in index.js, after an engine run without error and without stderr
\* output and with a test-summary.json, once generateReport has finished,
\* exactly one request was sent, and if it was answered test-report.txt was
\* written.
C24_IndexAnalysesTheSummary ==
    ( /\ program = "index.js" /\ cliPc = "closed"
      /\ engine.error = "none" /\ ~engine.stderr /\ engine.summary = "valid" )
    => /\ Times("requestSent") = 1
       /\ reporter.request = "answered" => Times("reportWritten") = 1

\* C25: in index.js, after an engine command that ended with an error or wrote
\* to stderr, the summary is not read, no request is sent, no report is
\* written, and no handler is left that could do so.
C25_IndexStopsOnEngineFailure ==
    ( /\ program = "index.js" /\ cliPc \notin {"prompts", "engine"}
      /\ (engine.error # "none" \/ engine.stderr) )
    => /\ Quiescent
       /\ Times("summaryRead") = 0
       /\ Times("requestSent") = 0
       /\ Times("reportWritten") = 0

C25_Witness ==
    /\ program = "index.js" /\ cliPc = "returned"
    /\ engine.error = "none" /\ engine.stderr /\ engine.summary = "valid"

\* C26: in main.ts the report process is started exactly once, by the close
\* handler and whatever the exit code was; it has not been started while the
\* engine is still running.
C26_ReporterStartedOnceAfterClose ==
    program = "main.ts" =>
        /\ cliPc \in {"prompts", "engine"} => Times("reporterStarted") = 0
        /\ cliPc \notin {"prompts", "engine"} =>
               /\ Times("reporterStarted") = 1
               /\ Times("engineClosed") = 1
               /\ \A i, j \in DOMAIN cliEvents :
                      (cliEvents[i] = "engineClosed" /\ cliEvents[j] = "reporterStarted")
                          => i < j

C26_Witness ==
    /\ program = "main.ts" /\ Quiescent
    /\ engine.error = "signal"
    /\ Times("reporterStarted") = 1

\* C28: once no handler of the tool is left to run, the readline interface
\* has been closed.
C28_ReadlineClosedOnEveryPath ==
    Quiescent => ~rlOpen

====
